---------------------------- MODULE Spec2Model ----------------------------
(***************************************************************************)
(* Model of async-openai's file resource client (src/file.rs).             *)
(*                                                                         *)
(* Files<'c, C> holds a shared reference to a Client and maps five         *)
(* operations to one HTTP call each.  The model has three layers:          *)
(*   - the methods of `impl Files` (translated from file.rs);              *)
(*   - the Client transport they delegate to (post_form, get,              *)
(*     get_with_query, delete): not part of file.rs, modelled from the     *)
(*     specification's description of the transport and its errors;        *)
(*   - the remote file store behind the HTTP surface: modelled from the    *)
(*     specification (sections 4.1, 6 and 8).                              *)
(* Caller tasks invoke the methods concurrently on the same Files value.   *)
(* Strings are TLA+ strings; format! is string concatenation (\o).         *)
(***************************************************************************)
EXTENDS Naturals, Sequences, FiniteSets, Bags

\* Number of calls that may be in flight at once on the same client reference.
MaxInFlight == 2

\* Number of files the remote store accepts before it answers quota_exceeded.
MaxFiles == 2

VARIABLES
    files,      \* the Files value: its only field is the client reference
    inflight,   \* bag of the calls awaiting their response
    last,       \* the call that has just completed, with its result
    store,      \* remote store: the live files, in insertion order
    clock,      \* remote store: number of files created so far
    returned,   \* history: [rec, request] for every create that returned Ok
    deleted     \* history: identifiers whose delete returned Ok

vars == <<files, inflight, last, store, clock, returned, deleted>>

-----------------------------------------------------------------------------
(* Inputs *)

Digit == <<"1", "2", "3", "4", "5", "6", "7", "8", "9">>

\* Identifiers the remote store hands out.
FileId(n) == "file-" \o Digit[n]

\* CreateFileRequest values (file content with its name, and a purpose).
Requests ==
    { [file |-> [name |-> "test.jsonl", content |-> "{a}{b}"], purpose |-> "fine-tune"],
      [file |-> [name |-> "notes.txt", content |-> "hello"], purpose |-> "assistants"] }

Purposes == { r.purpose : r \in Requests }

\* list queries: a slice of key-value pairs, as in the test's [("purpose", "fine-tune")].
Queries == { << >> } \cup { << <<"purpose", p>> >> : p \in Purposes }

\* Identifiers a caller may pass: the empty string, the store's identifiers,
\* and a string that is an identifier followed by "/content".
Identifiers ==
    { "" } \cup { FileId(n) : n \in 1..MaxFiles } \cup { FileId(1) \o "/content" }

IdOps == { "retrieve", "delete", "retrieve_content" }

NoBody == [file |-> [name |-> "", content |-> ""], purpose |-> ""]

\* The argument of a call: only the field its operation takes is set.
NoArg == [request |-> NoBody, query |-> << >>, file_id |-> ""]

Args(op) ==
    CASE op = "create" -> { [NoArg EXCEPT !.request = r] : r \in Requests }
      [] op = "list" -> { [NoArg EXCEPT !.query = q] : q \in Queries }
      [] OTHER -> { [NoArg EXCEPT !.file_id = i] : i \in Identifiers }

Ops == { "create", "list" } \cup IdOps

-----------------------------------------------------------------------------
(* Client transport: the requests its four entry points build *)

client_post_form(path, form) ==
    [method |-> "POST", path |-> path, query |-> << >>, body |-> form]

client_get(path) ==
    [method |-> "GET", path |-> path, query |-> << >>, body |-> NoBody]

client_get_with_query(path, query) ==
    [method |-> "GET", path |-> path, query |-> query, body |-> NoBody]

client_delete(path) ==
    [method |-> "DELETE", path |-> path, query |-> << >>, body |-> NoBody]

\* A method that returned without delegating would hand the transport nothing.
NoRequest == [method |-> "", path |-> "", query |-> << >>, body |-> NoBody]

-----------------------------------------------------------------------------
(* Results *)

Ok(v) == [kind |-> "Ok", value |-> v]
Err(kind, code) == [kind |-> kind, value |-> [code |-> code]]
NoResult == [kind |-> "none", value |-> [code |-> ""]]

IsErr(r) == r.kind \in { "TransportError", "ApiError", "SerializationError" }

-----------------------------------------------------------------------------
(* impl Files *)

\* Files::new
new(client) == [client |-> client]

\* Variant: the collection path is mistyped.
create_typo(request) ==
    [req |-> client_post_form("/file", request), ret |-> "OpenAIFile"]

\* Files::create
create(request) ==
    [req |-> client_post_form("/files", request), ret |-> "OpenAIFile"]

\* Variant: the path carries a trailing slash.
list_slash(query) ==
    [req |-> client_get_with_query("/files/", query), ret |-> "ListFilesResponse"]

\* Variant: the query is dropped (get instead of get_with_query).
list_noquery(query) ==
    [req |-> client_get("/files"), ret |-> "ListFilesResponse"]

\* Files::list
list(query) ==
    [req |-> client_get_with_query("/files", query), ret |-> "ListFilesResponse"]

\* Variant: the separator between collection and identifier is missing.
retrieve_noslash(file_id) ==
    [req |-> client_get("/files" \o file_id), ret |-> "OpenAIFile"]

\* Variant: an empty identifier is rejected before anything is sent.
retrieve_nonempty(file_id) ==
    IF file_id = "" THEN [req |-> NoRequest, ret |-> "OpenAIFile"]
    ELSE [req |-> client_get("/files/" \o file_id), ret |-> "OpenAIFile"]

\* Files::retrieve
retrieve(file_id) ==
    [req |-> client_get("/files/" \o file_id), ret |-> "OpenAIFile"]

\* Variant: the identifier is cut to the length of a store identifier.
delete_trimmed(file_id) ==
    LET id == IF Len(file_id) > 6 THEN SubSeq(file_id, 1, 6) ELSE file_id
    IN [req |-> client_delete("/files/" \o id), ret |-> "DeleteFileResponse"]

\* Variant: the call is delegated to get instead of delete.
delete_get(file_id) ==
    [req |-> client_get("/files/" \o file_id), ret |-> "DeleteFileResponse"]

\* Files::delete
delete(file_id) ==
    [req |-> client_delete("/files/" \o file_id), ret |-> "DeleteFileResponse"]

\* Variant: the content suffix is missing.
retrieve_content_nosuffix(file_id) ==
    [req |-> client_get("/files/" \o file_id), ret |-> "String"]

\* Files::retrieve_content
retrieve_content(file_id) ==
    [req |-> client_get("/files/" \o file_id \o "/content"), ret |-> "String"]

\* Variant: a failure is replaced by a default success.
propagate_recover(r) ==
    IF IsErr(r) THEN Ok([code |-> "default"]) ELSE r

\* Variant: a failure is replaced by a record remembered from an earlier create.
propagate_cached(r) ==
    IF IsErr(r) /\ returned # {} THEN Ok((CHOOSE g \in returned : TRUE).rec) ELSE r

\* Every method ends in `.await` of the delegated call as its tail expression:
\* the transport's Result is the method's Result.
propagate(r) == r

Method(op, arg) ==
    CASE op = "create" -> create(arg.request)
      [] op = "list" -> list(arg.query)
      [] op = "retrieve" -> retrieve(arg.file_id)
      [] op = "delete" -> delete(arg.file_id)
      [] op = "retrieve_content" -> retrieve_content(arg.file_id)

-----------------------------------------------------------------------------
(* Remote file store *)

LiveIds == { store[i].rec.id : i \in DOMAIN store }

Entry(id) == store[CHOOSE i \in DOMAIN store : store[i].rec.id = id]

Matches(rec, query) ==
    \A i \in DOMAIN query : query[i][1] = "purpose" => rec.purpose = query[i][2]

RECURSIVE Select(_, _)
Select(s, query) ==
    IF s = << >> THEN << >>
    ELSE LET rest == Select(Tail(s), query)
         IN IF Matches(Head(s).rec, query) THEN <<Head(s).rec>> \o rest ELSE rest

RECURSIVE Without(_, _)
Without(s, id) ==
    IF s = << >> THEN << >>
    ELSE IF Head(s).rec.id = id THEN Tail(s)
         ELSE <<Head(s)>> \o Without(Tail(s), id)

ApiErrorBody(code) == [type |-> "error", body |-> [code |-> code]]

\* What the store does with one request: its next state and the response.
Handle(req) ==
    LET same(resp) == [store |-> store, clock |-> clock, resp |-> resp]
    IN
    IF req.path = "/files" THEN
        IF req.method = "POST" THEN
            IF clock >= MaxFiles THEN same(ApiErrorBody("quota_exceeded"))
            ELSE LET rec == [id |-> FileId(clock + 1),
                             bytes |-> Len(req.body.file.content),
                             created_at |-> clock + 1,
                             filename |-> req.body.file.name,
                             purpose |-> req.body.purpose]
                 IN [store |-> Append(store, [rec |-> rec, content |-> req.body.file.content]),
                     clock |-> clock + 1,
                     resp |-> [type |-> "OpenAIFile", body |-> rec]]
        ELSE IF req.method = "GET" THEN
            same([type |-> "ListFilesResponse", body |-> [data |-> Select(store, req.query)]])
        ELSE same(ApiErrorBody("invalid_request"))
    ELSE IF \E id \in LiveIds : req.path = "/files/" \o id THEN
        LET id == CHOOSE id \in LiveIds : req.path = "/files/" \o id
        IN IF req.method = "GET" THEN
               same([type |-> "OpenAIFile", body |-> Entry(id).rec])
           ELSE IF req.method = "DELETE" THEN
               [store |-> Without(store, id), clock |-> clock,
                resp |-> [type |-> "DeleteFileResponse", body |-> [id |-> id, deleted |-> TRUE]]]
           ELSE same(ApiErrorBody("invalid_request"))
    ELSE IF \E id \in LiveIds : req.path = "/files/" \o id \o "/content" THEN
        LET id == CHOOSE id \in LiveIds : req.path = "/files/" \o id \o "/content"
        IN IF req.method = "GET" THEN
               same([type |-> "String", body |-> [text |-> Entry(id).content]])
           ELSE same(ApiErrorBody("invalid_request"))
    ELSE same(ApiErrorBody("not_found"))

-----------------------------------------------------------------------------
(* Client transport: decoding a response into the method's return type *)

Decode(ret, resp) ==
    IF resp.type = "error" THEN Err("ApiError", resp.body.code)
    ELSE IF resp.type = ret THEN Ok(resp.body)
    ELSE Err("SerializationError", "json_deserialize")

-----------------------------------------------------------------------------
(* Calls *)

NoCall == [op |-> "", arg |-> NoArg, req |-> NoRequest, ret |-> "", nreq |-> 0]

Nothing == [call |-> NoCall, outcome |-> NoResult, result |-> NoResult]

Calls == BagToSet(inflight)

Init ==
    /\ files = new("client")
    /\ inflight = EmptyBag
    /\ last = Nothing
    /\ store = << >>
    /\ clock = 0
    /\ returned = {}
    /\ deleted = {}

\* A caller invokes files.op(arg): the method formats its path and delegates.
Invoke ==
    /\ last = Nothing
    /\ BagCardinality(inflight) < MaxInFlight
    /\ \E op \in Ops : \E arg \in Args(op) :
         LET m == Method(op, arg)
             call == [op |-> op, arg |-> arg, req |-> m.req, ret |-> m.ret, nreq |-> 1]
         IN IF m.req = NoRequest
            THEN /\ last' = [call |-> [call EXCEPT !.nreq = 0], outcome |-> NoResult,
                             result |-> Err("InvalidArgument", "rejected")]
                 /\ UNCHANGED inflight
            ELSE /\ inflight' = inflight (+) SetToBag({call})
                 /\ UNCHANGED last
    /\ UNCHANGED <<files, store, clock, returned, deleted>>

\* The store handles a call's request and the transport decodes the answer.
Serve ==
    \E c \in Calls :
        LET h == Handle(c.req)
            out == Decode(c.ret, h.resp)
            res == propagate(out)
        IN /\ last = Nothing
           /\ store' = h.store
           /\ clock' = h.clock
           /\ inflight' = inflight (-) SetToBag({c})
           /\ last' = [call |-> c, outcome |-> out, result |-> res]
           /\ returned' = IF c.op = "create" /\ res.kind = "Ok"
                          THEN returned \cup { [rec |-> res.value, request |-> c.arg.request] }
                          ELSE returned
           /\ deleted' = IF c.op = "delete" /\ res.kind = "Ok"
                         THEN deleted \cup { c.arg.file_id }
                         ELSE deleted
           /\ UNCHANGED files

\* A request never reaches the store: connection, DNS or timeout failure.
Fail ==
    \E c \in Calls :
        LET out == Err("TransportError", "reqwest")
        IN /\ last = Nothing
           /\ inflight' = inflight (-) SetToBag({c})
           /\ last' = [call |-> c, outcome |-> out, result |-> propagate(out)]
           /\ UNCHANGED <<files, store, clock, returned, deleted>>

\* The caller receives the result of the completed call.
Return ==
    /\ last # Nothing
    /\ last' = Nothing
    /\ UNCHANGED <<files, inflight, store, clock, returned, deleted>>

Next ==
    \/ Invoke
    \/ Serve
    \/ Fail
    \/ Return

Spec == Init /\ [][Next]_vars

-----------------------------------------------------------------------------
(* Vocabulary of the properties *)

Completed == last # Nothing

\* The request of the completed call reached the store and was answered.
Served == Completed /\ last.outcome.kind # "TransportError"

\* Every call the state shows: those in flight and the one just completed.
AllCalls == Calls \cup (IF Completed THEN { last.call } ELSE {})

Live(g) == g.rec.id \in LiveIds

EndsWithContent(id) ==
    Len(id) >= 8 /\ SubSeq(id, Len(id) - 7, Len(id)) = "/content"

\* The identifier a call is keyed by ("" for create and list, which take none).
IdOf(c) == IF c.op \in IdOps THEN c.arg.file_id ELSE ""

\* path is prefix, then id unmodified, then suffix.
Verbatim(path, prefix, id, suffix) ==
    /\ Len(path) = Len(prefix) + Len(id) + Len(suffix)
    /\ SubSeq(path, 1, Len(prefix)) = prefix
    /\ SubSeq(path, Len(prefix) + 1, Len(prefix) + Len(id)) = id
    /\ SubSeq(path, Len(prefix) + Len(id) + 1, Len(path)) = suffix

-----------------------------------------------------------------------------
\* C1: a retrieve of an identifier returned by create, answered by the store
\* while the file has not been deleted, returns a record whose id, filename,
\* bytes, purpose and created_at equal those of the record create returned.
CreateThenRetrieve ==
    \A g \in returned :
        ( /\ Served
          /\ last.call.op = "retrieve"
          /\ last.call.arg.file_id = g.rec.id
          /\ Live(g) )
        => /\ last.result.kind = "Ok"
           /\ last.result.value.id = g.rec.id
           /\ last.result.value.filename = g.rec.filename
           /\ last.result.value.bytes = g.rec.bytes
           /\ last.result.value.purpose = g.rec.purpose
           /\ last.result.value.created_at = g.rec.created_at

\* C1 witness: a retrieve has returned the record of the second file created.
CreateThenRetrieveWitness ==
    /\ Completed
    /\ last.call.op = "retrieve"
    /\ last.result.kind = "Ok"
    /\ \E g \in returned : g.rec = last.result.value /\ g.rec.created_at = 2

\* C2: a delete that succeeds returns the requested id with deleted = TRUE, and
\* a retrieve of an identifier whose delete has succeeded never returns a
\* record: whenever the store answers it, the result is ApiError(not_found).
DeleteThenRetrieveNotFound ==
    /\ ( Completed /\ last.call.op = "delete" /\ last.result.kind = "Ok" )
       => /\ last.result.value.id = last.call.arg.file_id
          /\ last.result.value.deleted = TRUE
    /\ ( Completed /\ last.call.op = "retrieve" /\ last.call.arg.file_id \in deleted )
       => /\ last.result.kind # "Ok"
          /\ Served => last.result = Err("ApiError", "not_found")

\* C2 witness: a retrieve of a deleted identifier was answered not_found while
\* another file is still stored.
DeleteThenRetrieveWitness ==
    /\ Completed
    /\ last.call.op = "retrieve"
    /\ last.call.arg.file_id \in deleted
    /\ last.result = Err("ApiError", "not_found")
    /\ store # << >>

\* C3: a list answered by the store contains every created record that is
\* still stored and satisfies the query.
ListContainsCreated ==
    \A g \in returned :
        ( /\ Served
          /\ last.call.op = "list"
          /\ Live(g)
          /\ Matches(g.rec, last.call.arg.query) )
        => /\ last.result.kind = "Ok"
           /\ \E i \in DOMAIN last.result.value.data : last.result.value.data[i] = g.rec

\* C3 witness: a list filtered by purpose returned a created record.
ListContainsCreatedWitness ==
    /\ Completed
    /\ last.call.op = "list"
    /\ last.call.arg.query = << <<"purpose", "fine-tune">> >>
    /\ last.result.kind = "Ok"
    /\ \E g \in returned : \E i \in DOMAIN last.result.value.data :
           last.result.value.data[i] = g.rec

\* C4: every call issues the method and path of the interface table, the
\* identifier inserted unmodified, and list carries its query.
RequestTable ==
    \A c \in AllCalls :
        /\ c.op = "create" =>
               /\ c.req.method = "POST" /\ c.req.path = "/files"
               /\ c.req.body = c.arg.request
        /\ c.op = "list" =>
               /\ c.req.method = "GET" /\ c.req.path = "/files"
               /\ c.req.query = c.arg.query
        /\ c.op = "retrieve" =>
               /\ c.req.method = "GET"
               /\ Verbatim(c.req.path, "/files/", c.arg.file_id, "")
        /\ c.op = "delete" =>
               /\ c.req.method = "DELETE"
               /\ Verbatim(c.req.path, "/files/", c.arg.file_id, "")
        /\ c.op = "retrieve_content" =>
               /\ c.req.method = "GET"
               /\ Verbatim(c.req.path, "/files/", c.arg.file_id, "/content")

\* C4 witness: a create and a retrieve_content are in flight together.
RequestTableWitness ==
    /\ \E c \in Calls : c.op = "create" /\ c.req.path = "/files"
    /\ \E c \in Calls : c.op = "retrieve_content" /\ c.req.path = "/files/file-2/content"

\* C5: every call hands the transport exactly one request, and a failure of
\* that request (TransportError, ApiError, SerializationError) is the call's
\* result, unchanged.
NoRetryNoRecovery ==
    /\ \A c \in AllCalls : c.nreq = 1
    /\ ( Completed /\ IsErr(last.outcome) ) => last.result = last.outcome

\* C5 witness: a call has returned the SerializationError of its one request.
NoRetryNoRecoveryWitness ==
    /\ Completed
    /\ last.call.nreq = 1
    /\ last.outcome.kind = "SerializationError"
    /\ last.result.kind = "SerializationError"

\* C6 as stated: an empty identifier is rejected without a request being sent,
\* and every non-empty identifier is sent.
EmptyIdRejected ==
    \A c \in AllCalls :
        c.op \in IdOps =>
            IF c.arg.file_id = "" THEN c.nreq = 0 /\ c.req = NoRequest
            ELSE c.nreq = 1 /\ c.req # NoRequest

\* C6 amended: retrieve, delete and retrieve_content validate nothing: every
\* identifier, the empty one included, is formatted into the path and sent.
EveryIdSent ==
    \A c \in AllCalls :
        c.op \in IdOps =>
            /\ c.nreq = 1
            /\ c.req # NoRequest
            /\ c.arg.file_id = "" =>
                   c.req.path = (IF c.op = "retrieve_content" THEN "/files//content"
                                 ELSE "/files/")

\* C6 witness: a retrieve with the empty identifier is in flight.
EveryIdSentWitness ==
    \E c \in Calls :
        c.op = "retrieve" /\ c.arg.file_id = "" /\ c.nreq = 1 /\ c.req.path = "/files/"

CallsIndependent ==
    [][ /\ files' = files
        /\ \/ inflight' = inflight
           \/ \E c \in BagToSet(inflight') : inflight' = inflight (+) SetToBag({c})
           \/ \E c \in BagToSet(inflight) : inflight = inflight' (+) SetToBag({c})
        /\ last' # Nothing =>
               /\ last'.result = last'.outcome
               /\ last'.call.req = Method(last'.call.op, last'.call.arg).req
      ]_vars

\* C8 witness: a call has failed while another, in flight with it, is still
\* waiting, after a file had been created.
CallsIndependentWitness ==
    /\ Completed
    /\ IsErr(last.result)
    /\ returned # {}
    /\ BagCardinality(inflight) >= 1
    /\ files = new("client")

\* C9 as stated: a list filtered by the purpose of a created, stored record
\* returns that record as the last entry of data.
CreatedIsLast ==
    \A g \in returned :
        ( /\ Served
          /\ last.call.op = "list"
          /\ last.call.arg.query = << <<"purpose", g.rec.purpose>> >>
          /\ Live(g) )
        => /\ last.result.kind = "Ok"
           /\ last.result.value.data # << >>
           /\ last.result.value.data[Len(last.result.value.data)] = g.rec

\* C9 amended: the record is the last entry provided no file of the same
\* purpose, still stored, was created after it.
NewestCreatedIsLast ==
    \A g \in returned :
        ( /\ Served
          /\ last.call.op = "list"
          /\ last.call.arg.query = << <<"purpose", g.rec.purpose>> >>
          /\ Live(g)
          /\ ~ \E h \in returned :
                 /\ Live(h)
                 /\ h.rec.purpose = g.rec.purpose
                 /\ h.rec.created_at > g.rec.created_at )
        => /\ last.result.kind = "Ok"
           /\ last.result.value.data # << >>
           /\ last.result.value.data[Len(last.result.value.data)] = g.rec

\* C9 witness: a list filtered by fine-tune ended with the fine-tune record
\* although a file of another purpose was created after it.
NewestCreatedIsLastWitness ==
    /\ Completed
    /\ last.call.op = "list"
    /\ last.call.arg.query = << <<"purpose", "fine-tune">> >>
    /\ last.result.kind = "Ok"
    /\ Len(store) = 2
    /\ store[2].rec.purpose = "assistants"
    /\ last.result.value.data = << store[1].rec >>

\* C10 as stated: two calls that differ in operation or in (non-empty)
\* identifier never issue the same method and path.
RequestsInjective ==
    \A c, d \in AllCalls :
        ( /\ c.op \in IdOps => c.arg.file_id # ""
          /\ d.op \in IdOps => d.arg.file_id # ""
          /\ <<c.op, IdOf(c)>> # <<d.op, IdOf(d)>> )
        => <<c.req.method, c.req.path>> # <<d.req.method, d.req.path>>

\* C10 amended: the same, for identifiers that do not end in "/content".
RequestsInjectiveNoSuffix ==
    \A c, d \in AllCalls :
        ( /\ c.op \in IdOps => c.arg.file_id # "" /\ ~ EndsWithContent(c.arg.file_id)
          /\ d.op \in IdOps => d.arg.file_id # "" /\ ~ EndsWithContent(d.arg.file_id)
          /\ <<c.op, IdOf(c)>> # <<d.op, IdOf(d)>> )
        => <<c.req.method, c.req.path>> # <<d.req.method, d.req.path>>

\* C10 witness: a retrieve and a delete of the same identifier are in flight.
RequestsInjectiveWitness ==
    \E c, d \in Calls :
        /\ c.op = "retrieve" /\ d.op = "delete"
        /\ c.arg.file_id = "file-1" /\ d.arg.file_id = "file-1"
        /\ c.req.path = d.req.path
        /\ c.req.method # d.req.method

=============================================================================
